---------------------------- MODULE Spec2Model ----------------------------
(***************************************************************************)
(* Model of the SQL sandbox of src/main.py: the validator _validate_sql,   *)
(* the limiter _wrap_query_with_limit and the request handler run_query.   *)
(* A statement is a sequence of one-character strings, so that trimming,   *)
(* case folding, substring tests and the regular expressions of the code   *)
(* are computed character by character, as Python computes them.           *)
(***************************************************************************)
EXTENDS Integers, Sequences, FiniteSets

VARIABLES pc, body_sql, safe_sql, final_sql, executed_sql, status_code, detail

vars == <<pc, body_sql, safe_sql, final_sql, executed_sql, status_code, detail>>

-----------------------------------------------------------------------------
(* Characters and the str methods the code uses.                           *)

\* str.strip() and the regex class \s: the whitespace characters.
Whitespace == {" ", "\t", "\n", "\r", "\f"}

UpperLetters ==
    <<"A", "B", "C", "D", "E", "F", "G", "H", "I", "J", "K", "L", "M",
      "N", "O", "P", "Q", "R", "S", "T", "U", "V", "W", "X", "Y", "Z">>

LowerLetters ==
    <<"a", "b", "c", "d", "e", "f", "g", "h", "i", "j", "k", "l", "m",
      "n", "o", "p", "q", "r", "s", "t", "u", "v", "w", "x", "y", "z">>

Digits == <<"0", "1", "2", "3", "4", "5", "6", "7", "8", "9">>

Range(f) == {f[i] : i \in DOMAIN f}

\* The regex class \w, which decides where \b matches.
WordChars == Range(UpperLetters) \cup Range(LowerLetters) \cup Range(Digits) \cup {"_"}

LowerChar(c) ==
    IF c \in Range(UpperLetters)
    THEN LowerLetters[CHOOSE i \in DOMAIN UpperLetters : UpperLetters[i] = c]
    ELSE c

\* str.lower()
lower(s) == [i \in 1..Len(s) |-> LowerChar(s[i])]

\* Index of the first character of s that is not in cs (Len(s) + 1 if none).
FirstNotIn(s, cs) ==
    IF \A i \in 1..Len(s) : s[i] \in cs
    THEN Len(s) + 1
    ELSE CHOOSE i \in 1..Len(s) :
             s[i] \notin cs /\ \A j \in 1..(i - 1) : s[j] \in cs

\* Index of the last character of s that is not in cs (0 if none).
LastNotIn(s, cs) ==
    IF \A i \in 1..Len(s) : s[i] \in cs
    THEN 0
    ELSE CHOOSE i \in 1..Len(s) :
             s[i] \notin cs /\ \A j \in (i + 1)..Len(s) : s[j] \in cs

\* str.lstrip()
lstrip(s) == SubSeq(s, FirstNotIn(s, Whitespace), Len(s))

\* str.rstrip(chars)
rstrip(s, cs) == SubSeq(s, 1, LastNotIn(s, cs))

\* str.strip()
strip(s) == rstrip(lstrip(s), Whitespace)

\* str.startswith(p)
startswith(s, p) == Len(s) >= Len(p) /\ SubSeq(s, 1, Len(p)) = p

\* str.endswith(p)
endswith(s, p) ==
    Len(s) >= Len(p) /\ SubSeq(s, Len(s) - Len(p) + 1, Len(s)) = p

\* The literal p occurs in s at position i.
OccursAt(s, p, i) ==
    /\ i + Len(p) - 1 <= Len(s)
    /\ s[i] = p[1]
    /\ SubSeq(s, i, i + Len(p) - 1) = p

\* p in s
contains(s, p) == \E i \in 1..Len(s) : OccursAt(s, p, i)

\* str(n) for a natural number, as an f-string renders it.
RECURSIVE str(_)
str(n) == IF n < 10 THEN <<Digits[n + 1]>>
          ELSE str(n \div 10) \o <<Digits[(n % 10) + 1]>>

-----------------------------------------------------------------------------
(* The regular expressions of the code.  Every pattern of the code is a    *)
(* sequence of literals joined by \s+, with \b at its end and, for the     *)
(* patterns given to re.search, \b at its start.  A pattern is the record  *)
(* [lead |-> \b at the start, lits |-> the literals].                      *)

IsWordAt(s, i) == i >= 1 /\ i <= Len(s) /\ s[i] \in WordChars

\* \b matches between s[i - 1] and s[i].
WordBoundary(s, i) == IsWordAt(s, i - 1) # IsWordAt(s, i)

\* The position after the run of \s characters that starts at i.
RECURSIVE SkipSpaces(_, _)
SkipSpaces(s, i) ==
    IF i <= Len(s) /\ s[i] \in Whitespace THEN SkipSpaces(s, i + 1) ELSE i

\* The position after a match of lits[k], \s+, lits[k + 1], ... that starts
\* at i, or 0 when there is none.  No literal starts with whitespace, so \s+
\* takes the whole run.
RECURSIVE MatchLits(_, _, _, _)
MatchLits(lits, k, s, i) ==
    IF ~OccursAt(s, lits[k], i) THEN 0
    ELSE LET j == i + Len(lits[k]) IN
         IF k = Len(lits) THEN j
         ELSE LET e == SkipSpaces(s, j) IN
              IF e = j THEN 0 ELSE MatchLits(lits, k + 1, s, e)

MatchesAt(pat, s, i) ==
    /\ pat.lead => WordBoundary(s, i)
    /\ LET e == MatchLits(pat.lits, 1, s, i) IN e # 0 /\ WordBoundary(s, e)

\* re.search(pat, s)
re_search(pat, s) == \E i \in 1..Len(s) : MatchesAt(pat, s, i)

\* re.match(pat, s)
re_match(pat, s) == MatchesAt(pat, s, 1)

\* r"\bw\b" and r"\bw1\s+w2\b"
Word(w) == [lead |-> TRUE, lits |-> <<w>>]
Words2(w1, w2) == [lead |-> TRUE, lits |-> <<w1, w2>>]

-----------------------------------------------------------------------------
(* Text constants of the code.                                             *)

kw_select == <<"s", "e", "l", "e", "c", "t">>
kw_insert == <<"i", "n", "s", "e", "r", "t">>
kw_update == <<"u", "p", "d", "a", "t", "e">>
kw_delete == <<"d", "e", "l", "e", "t", "e">>
kw_from == <<"f", "r", "o", "m">>
kw_into == <<"i", "n", "t", "o">>
kw_limit == <<"l", "i", "m", "i", "t">>
kw_join == <<"j", "o", "i", "n">>
kw_table == <<"t", "a", "b", "l", "e">>
tablename == <<"t", "a", "b", "l", "e", "n", "a", "m", "e">>

allowed_verbs == <<kw_select, kw_insert, kw_update, kw_delete>>

FORBIDDEN_PATTERNS ==
    << Word(<<"r", "e", "a", "d", "_", "c", "s", "v", "_", "a", "u", "t", "o">>),
       Word(<<"r", "e", "a", "d", "_", "p", "a", "r", "q", "u", "e", "t">>),
       Word(<<"p", "a", "r", "q", "u", "e", "t", "_", "s", "c", "a", "n">>),
       Word(<<"h", "t", "t", "p", "f", "s">>),
       Word(<<"c", "o", "p", "y">>),
       Word(<<"a", "t", "t", "a", "c", "h">>),
       Word(<<"d", "e", "t", "a", "c", "h">>),
       Word(<<"p", "r", "a", "g", "m", "a">>),
       Word(<<"i", "n", "s", "t", "a", "l", "l">>),
       Word(<<"l", "o", "a", "d">>),
       Word(<<"e", "x", "p", "o", "r", "t">>),
       Word(<<"i", "m", "p", "o", "r", "t">>),
       Words2(<<"c", "r", "e", "a", "t", "e">>, kw_table),
       Words2(<<"d", "r", "o", "p">>, kw_table),
       Word(<<"a", "l", "t", "e", "r">>),
       Word(<<"t", "r", "u", "n", "c", "a", "t", "e">>),
       Word(<<"c", "a", "l", "l">>),
       Word(<<"s", "y", "s", "t", "e", "m">>) >>

\* The default of max_rows.
max_rows == 1000

\* The rejection reasons of _validate_sql, and the status it raises them with.
EmptyDetail == "SQL query cannot be empty."
MultiDetail == "Multiple SQL statements are not allowed. Please run one statement at a time."
VerbDetail == "Only SELECT, INSERT, UPDATE and DELETE statements are allowed."
FileDetail == "File system access is not allowed."
ForbiddenDetail == "This query uses a disallowed command or function."
JoinDetail == "JOIN is not allowed. You can only work with the 'tablename' table."
FromDetail == "You can only access the 'tablename' table loaded from your CSV."
UpdateDetail == "You can only UPDATE the 'tablename' table."
DeleteDetail == "You can only DELETE from the 'tablename' table."
InsertDetail == "You can only INSERT into the 'tablename' table."
BadRequest == 400


-----------------------------------------------------------------------------
(* _validate_sql: the conditions of its checks, then the chain.            *)

Semicolon == <<";">>

Rejected(reason) ==
    [ok |-> FALSE, status_code |-> BadRequest, detail |-> reason, sql |-> <<>>]

Accepted(text) ==
    [ok |-> TRUE, status_code |-> 0, detail |-> "", sql |-> text]

\* not sql or not sql.strip()
IsEmpty(sql) == Len(sql) = 0 \/ Len(strip(sql)) = 0

\* stripped: trimmed, then one trailing ';' removed.
Stripped(sql) ==
    LET s == strip(sql) IN
    IF endswith(s, Semicolon) THEN SubSeq(s, 1, Len(s) - 1) ELSE s

\* ";" in lower_sql
HasSeparator(lower_sql) == contains(lower_sql, Semicolon)

\* Variant: receiver and argument of startswith are exchanged.
BadVerb_Swapped(lower_sql) ==
    ~ \E v \in DOMAIN allowed_verbs :
          startswith(allowed_verbs[v], lstrip(lower_sql))

\* not lower_sql.lstrip().startswith(allowed_verbs)
BadVerb(lower_sql) ==
    ~ \E v \in DOMAIN allowed_verbs :
          startswith(lstrip(lower_sql), allowed_verbs[v])

\* "/etc/" in lower_sql or ".." in lower_sql
FileAccess(lower_sql) ==
    \/ contains(lower_sql, <<"/", "e", "t", "c", "/">>)
    \/ contains(lower_sql, <<".", ".">>)

\* Variant: the loop leaves after its first pattern.
UsesForbidden_FirstOnly(lower_sql) ==
    re_search(FORBIDDEN_PATTERNS[1], lower_sql)

\* The loop over FORBIDDEN_PATTERNS finds a match.
UsesForbidden(lower_sql) ==
    \E p \in DOMAIN FORBIDDEN_PATTERNS : re_search(FORBIDDEN_PATTERNS[p], lower_sql)

\* re.search(r"\bjoin\b", lower_sql)
HasJoin(lower_sql) == re_search(Word(kw_join), lower_sql)

\* A FROM is present and no FROM is followed by tablename.
WrongFrom(lower_sql) ==
    /\ re_search(Word(kw_from), lower_sql)
    /\ ~re_search(Words2(kw_from, tablename), lower_sql)

WrongUpdate(lower_sql) ==
    /\ startswith(lower_sql, kw_update \o <<" ">>)
    /\ ~re_match([lead |-> FALSE, lits |-> <<kw_update, tablename>>], lower_sql)

WrongDelete(lower_sql) ==
    /\ startswith(lower_sql, kw_delete \o <<" ">>)
    /\ ~re_match([lead |-> FALSE, lits |-> <<kw_delete, kw_from, tablename>>], lower_sql)

WrongInsert(lower_sql) ==
    /\ startswith(lower_sql, kw_insert \o <<" ">>)
    /\ ~re_match([lead |-> FALSE, lits |-> <<kw_insert, kw_into, tablename>>], lower_sql)

\* Variant: the leading verb is checked before the statement separator.
_validate_sql_VerbFirst(sql) ==
    IF IsEmpty(sql) THEN Rejected(EmptyDetail)
    ELSE LET stripped == Stripped(sql)
             lower_sql == lower(stripped)
         IN  IF BadVerb(lower_sql) THEN Rejected(VerbDetail)
             ELSE IF HasSeparator(lower_sql) THEN Rejected(MultiDetail)
             ELSE IF FileAccess(lower_sql) THEN Rejected(FileDetail)
             ELSE IF UsesForbidden(lower_sql) THEN Rejected(ForbiddenDetail)
             ELSE IF HasJoin(lower_sql) THEN Rejected(JoinDetail)
             ELSE IF WrongFrom(lower_sql) THEN Rejected(FromDetail)
             ELSE IF WrongUpdate(lower_sql) THEN Rejected(UpdateDetail)
             ELSE IF WrongDelete(lower_sql) THEN Rejected(DeleteDetail)
             ELSE IF WrongInsert(lower_sql) THEN Rejected(InsertDetail)
             ELSE Accepted(stripped)

_validate_sql(sql) ==
    IF IsEmpty(sql) THEN Rejected(EmptyDetail)
    ELSE LET stripped == Stripped(sql)
             lower_sql == lower(stripped)
         IN  IF HasSeparator(lower_sql) THEN Rejected(MultiDetail)
             ELSE IF BadVerb(lower_sql) THEN Rejected(VerbDetail)
             ELSE IF FileAccess(lower_sql) THEN Rejected(FileDetail)
             ELSE IF UsesForbidden(lower_sql) THEN Rejected(ForbiddenDetail)
             ELSE IF HasJoin(lower_sql) THEN Rejected(JoinDetail)
             ELSE IF WrongFrom(lower_sql) THEN Rejected(FromDetail)
             ELSE IF WrongUpdate(lower_sql) THEN Rejected(UpdateDetail)
             ELSE IF WrongDelete(lower_sql) THEN Rejected(DeleteDetail)
             ELSE IF WrongInsert(lower_sql) THEN Rejected(InsertDetail)
             ELSE Accepted(stripped)

-----------------------------------------------------------------------------
(* _wrap_query_with_limit                                                  *)

\* Variant: re.match in place of re.search, a LIMIT is seen only at the start.
HasLimit_AtStart(lower_sql) == re_match(Word(kw_limit), lower_sql)

\* re.search(r"\blimit\b", lower_sql)
HasLimit(lower_sql) == re_search(Word(kw_limit), lower_sql)

WrapHead ==
    <<"S", "E", "L", "E", "C", "T", " ", "*", " ", "F", "R", "O", "M", " ", "(">>

WrapTail ==
    <<")", " ", "A", "S", " ", "s", "u", "b", "q", "u", "e", "r", "y", " ",
      "L", "I", "M", "I", "T", " ">>

_wrap_query_with_limit(sql, rows) ==
    LET cleaned == rstrip(strip(sql), {";"})
        lower_sql == lstrip(lower(cleaned))
    IN  IF ~startswith(lower_sql, kw_select) THEN cleaned
        ELSE IF HasLimit(lower_sql) THEN cleaned
        ELSE WrapHead \o cleaned \o WrapTail \o str(rows)

-----------------------------------------------------------------------------
(* The request bodies the model submits: a head word and up to MaxTail     *)
(* further words, laid out with a separator, surrounding text and a case.  *)

MaxTail == 2
MaxFromClauses == 2

kw_other == <<"o", "t", "h", "e", "r">>
kw_updated == <<"u", "p", "d", "a", "t", "e", "d">>
kw_copy == <<"c", "o", "p", "y">>
kw_dots == <<".", ".">>

Heads == {kw_select, kw_insert, kw_update, kw_delete, kw_other, kw_updated}

TailWords ==
    {kw_from, kw_into, tablename, kw_other, kw_limit, kw_join, kw_copy, kw_dots,
     Semicolon}

UpperChar(c) ==
    IF c \in Range(LowerLetters)
    THEN UpperLetters[CHOOSE i \in DOMAIN LowerLetters : LowerLetters[i] = c]
    ELSE c

upper(s) == [i \in 1..Len(s) |-> UpperChar(s[i])]

RECURSIVE Join(_, _)
Join(ws, sep) ==
    IF Len(ws) = 0 THEN <<>>
    ELSE IF Len(ws) = 1 THEN ws[1]
    ELSE ws[1] \o sep \o Join(Tail(ws), sep)

Layouts ==
    { [lead |-> <<>>, sep |-> <<" ">>, trail |-> <<>>, upper |-> FALSE],
      [lead |-> <<>>, sep |-> <<" ">>, trail |-> <<>>, upper |-> TRUE],
      [lead |-> <<>>, sep |-> <<"\t">>, trail |-> <<>>, upper |-> FALSE],
      [lead |-> <<>>, sep |-> <<"\n">>, trail |-> <<>>, upper |-> FALSE],
      [lead |-> <<>>, sep |-> <<" ">>, trail |-> <<";">>, upper |-> FALSE],
      [lead |-> <<" ">>, sep |-> <<" ">>, trail |-> <<" ", ";", "\n">>, upper |-> FALSE] }

Render(ws, lay) ==
    LET t == Join(ws, lay.sep) IN
    lay.lead \o (IF lay.upper THEN upper(t) ELSE t) \o lay.trail

SeqsUpTo(S, n) == UNION {[1..k -> S] : k \in 0..n}

Statements ==
    { Render(<<h>> \o t, lay) :
          h \in Heads, t \in SeqsUpTo(TailWords, MaxTail), lay \in Layouts }

\* Statements with several FROM clauses: a verb, then up to MaxFromClauses
\* clauses "from <name>".
FromClauses == {<<kw_from, tablename>>, <<kw_from, kw_other>>}

RECURSIVE Flatten(_)
Flatten(ss) == IF Len(ss) = 0 THEN <<>> ELSE Head(ss) \o Flatten(Tail(ss))

FromStatements ==
    { Join(<<h>> \o Flatten(cs), <<" ">>) :
          h \in {kw_select, kw_delete},
          cs \in SeqsUpTo(FromClauses, MaxFromClauses) }

BlankStatements == {<<>>, <<" ">>, <<"\t", "\n">>, <<";">>}

Inputs == Statements \cup FromStatements \cup BlankStatements

-----------------------------------------------------------------------------
(* run_query, one action per step of the handler.                          *)

NoText == <<>>

Init ==
    /\ pc = "idle"
    /\ body_sql = NoText
    /\ safe_sql = NoText
    /\ final_sql = NoText
    /\ executed_sql = NoText
    /\ status_code = 0
    /\ detail = ""

\* A request arrives; body.sql is any of the request bodies.
Request ==
    /\ pc = "idle"
    /\ \E sql \in Inputs : body_sql' = sql
    /\ pc' = "validate"
    /\ UNCHANGED <<safe_sql, final_sql, executed_sql, status_code, detail>>

\* safe_sql = _validate_sql(body.sql) returns.
ValidateAccept ==
    /\ pc = "validate"
    /\ LET r == _validate_sql(body_sql) IN
       /\ r.ok
       /\ safe_sql' = r.sql
    /\ pc' = "wrap"
    /\ UNCHANGED <<body_sql, final_sql, executed_sql, status_code, detail>>

\* _validate_sql(body.sql) raises HTTPException, which ends the request.
ValidateReject ==
    /\ pc = "validate"
    /\ LET r == _validate_sql(body_sql) IN
       /\ ~r.ok
       /\ status_code' = r.status_code
       /\ detail' = r.detail
    /\ pc' = "rejected"
    /\ UNCHANGED <<body_sql, safe_sql, final_sql, executed_sql>>

\* final_sql = _wrap_query_with_limit(safe_sql)
Wrap ==
    /\ pc = "wrap"
    /\ final_sql' = _wrap_query_with_limit(safe_sql, max_rows)
    /\ pc' = "execute"
    /\ UNCHANGED <<body_sql, safe_sql, executed_sql, status_code, detail>>

\* conn.execute(final_sql) returns a result.
ExecuteOk ==
    /\ pc = "execute"
    /\ executed_sql' = final_sql
    /\ status_code' = 200
    /\ pc' = "done"
    /\ UNCHANGED <<body_sql, safe_sql, final_sql, detail>>

\* conn.execute(final_sql) raises: the engine's failure is reported as a 400.
ExecuteFail ==
    /\ pc = "execute"
    /\ executed_sql' = final_sql
    /\ status_code' = BadRequest
    /\ detail' = "Query failed"
    /\ pc' = "failed"
    /\ UNCHANGED <<body_sql, safe_sql, final_sql>>

\* The response is sent; the handler keeps nothing between requests.
Respond ==
    /\ pc \in {"rejected", "done", "failed"}
    /\ pc' = "idle"
    /\ body_sql' = NoText
    /\ safe_sql' = NoText
    /\ final_sql' = NoText
    /\ executed_sql' = NoText
    /\ status_code' = 0
    /\ detail' = ""

Next ==
    \/ Request
    \/ ValidateAccept
    \/ ValidateReject
    \/ Wrap
    \/ ExecuteOk
    \/ ExecuteFail
    \/ Respond

Spec == Init /\ [][Next]_vars

-----------------------------------------------------------------------------
(* The properties.                                                         *)

\* The text starts with the verb v as a whole word.
LeadingVerb(l, v) == startswith(l, v) /\ WordBoundary(l, Len(v) + 1)

StartsWithAllowedVerb(l) ==
    \E v \in DOMAIN allowed_verbs : startswith(l, allowed_verbs[v])

\* C1: whatever the request body, the text handed to conn.execute is
\* _wrap_query_with_limit of what _validate_sql returned for the body, so the
\* validator accepted the body; and, case-folded, it begins with an allowed verb,
\* holds no ';', matches no entry of FORBIDDEN_PATTERNS and holds no JOIN word.
C1_ExecutedTextIsValidated ==
    pc \in {"done", "failed"} =>
        LET v == _validate_sql(body_sql)
            l == lower(executed_sql)
        IN  /\ v.ok
            /\ executed_sql = _wrap_query_with_limit(v.sql, max_rows)
            /\ StartsWithAllowedVerb(l)
            /\ ~contains(l, <<";">>)
            /\ \A p \in DOMAIN FORBIDDEN_PATTERNS : ~re_search(FORBIDDEN_PATTERNS[p], l)
            /\ ~re_search(Word(kw_join), l)

\* A wrapped select from tablename has been handed to the engine.
C1_Witness ==
    /\ pc = "done"
    /\ executed_sql = WrapHead \o safe_sql \o WrapTail \o <<"1", "0", "0", "0">>
    /\ re_search(Words2(kw_from, tablename), lower(safe_sql))

\* A FROM keyword at some position is followed by a name that is not tablename.
FromOtherName(l) ==
    \E i \in 1..Len(l) :
        /\ MatchesAt(Word(kw_from), l, i)
        /\ LET e == SkipSpaces(l, i + Len(kw_from)) IN
               e > i + Len(kw_from) /\ IsWordAt(l, e)
        /\ ~MatchesAt(Words2(kw_from, tablename), l, i)

\* C2: in every statement _validate_sql accepts, every FROM keyword is
\* immediately followed by tablename; no accepted statement has a FROM followed
\* by another name.
C2_EveryFromIsTablename ==
    pc = "wrap" =>
        LET l == lower(safe_sql) IN
        /\ \A i \in 1..Len(l) :
               MatchesAt(Word(kw_from), l, i)
                   => MatchesAt(Words2(kw_from, tablename), l, i)
        /\ ~FromOtherName(l)

\* The text starts with the words lits, joined by whitespace, and a name
\* follows them after whitespace: the table the statement writes to.
NamesTarget(l, lits) ==
    LET e == MatchLits(lits, 1, l, 1)
        t == SkipSpaces(l, e)
    IN  e # 0 /\ t > e /\ IsWordAt(l, t)

\* C3: an accepted statement update <name>, delete from <name> or insert
\* into <name>, whatever whitespace separates its words, has tablename for
\* <name>: no accepted write statement targets another table.
C3_WriteTargetsTablename ==
    pc = "wrap" =>
        LET l == lower(safe_sql) IN
        /\ NamesTarget(l, <<kw_update>>) =>
               re_match([lead |-> FALSE, lits |-> <<kw_update, tablename>>], l)
        /\ NamesTarget(l, <<kw_delete, kw_from>>) =>
               re_match([lead |-> FALSE, lits |-> <<kw_delete, kw_from, tablename>>], l)
        /\ NamesTarget(l, <<kw_insert, kw_into>>) =>
               re_match([lead |-> FALSE, lits |-> <<kw_insert, kw_into, tablename>>], l)

\* C4: for an accepted select s without a LIMIT word, the limiter returns
\* "SELECT * FROM (" + s + ") AS subquery LIMIT 1000", with s verbatim.
C4_WrapsVerbatim ==
    (/\ pc = "execute"
     /\ startswith(lower(safe_sql), kw_select)
     /\ ~re_search(Word(kw_limit), lower(safe_sql)))
        => final_sql = WrapHead \o safe_sql \o WrapTail \o <<"1", "0", "0", "0">>

\* C5: for an accepted insert, update or delete, and for an accepted select
\* that holds a LIMIT word, the limiter returns its input character for
\* character.
C5_OthersUnchanged ==
    (/\ pc = "execute"
     /\ LET l == lower(safe_sql) IN
        \/ startswith(l, kw_insert)
        \/ startswith(l, kw_update)
        \/ startswith(l, kw_delete)
        \/ startswith(l, kw_select) /\ re_search(Word(kw_limit), l))
        => final_sql = safe_sql

\* C6: the limiter's output for an accepted select is accepted by
\* _validate_sql again.
C6_RoundTrip ==
    (pc = "execute" /\ startswith(lower(safe_sql), kw_select))
        => _validate_sql(final_sql).ok

\* C7: the text _validate_sql returns has no leading or trailing whitespace,
\* does not end with ';' and is a contiguous part of the input, in the
\* input's case.
C7_ReturnsTrimmedText ==
    pc = "wrap" =>
        /\ Len(safe_sql) > 0
        /\ safe_sql[1] \notin Whitespace
        /\ safe_sql[Len(safe_sql)] \notin Whitespace
        /\ safe_sql[Len(safe_sql)] # ";"
        /\ contains(body_sql, safe_sql)

C9_LimiterIdempotent ==
    pc = "execute" =>
        _wrap_query_with_limit(final_sql, max_rows) = final_sql

\* The limiter has wrapped an accepted select from tablename.
C9_Witness ==
    /\ pc = "execute"
    /\ final_sql # safe_sql
    /\ startswith(final_sql, WrapHead)
    /\ re_search(Words2(kw_from, tablename), lower(safe_sql))

\* The rules of _validate_sql in the order of the claim, each with its reason.
RuleViolated(sql) ==
    LET l == lower(Stripped(sql)) IN
    << IsEmpty(sql), HasSeparator(l), BadVerb(l), FileAccess(l), UsesForbidden(l),
       HasJoin(l), WrongFrom(l), WrongUpdate(l), WrongDelete(l), WrongInsert(l) >>

RuleDetail ==
    << EmptyDetail, MultiDetail, VerbDetail, FileDetail, ForbiddenDetail,
       JoinDetail, FromDetail, UpdateDetail, DeleteDetail, InsertDetail >>

\* C10: a request is rejected with the reason of the earliest rule it
\* violates, in the order empty input, separator, verb, filesystem pattern,
\* forbidden construct, JOIN, FROM reference, verb-specific binding, always
\* with status 400; it is accepted only when it violates no rule.
C10_EarliestRuleWins ==
    pc \in {"wrap", "rejected"} =>
        LET viol == RuleViolated(body_sql)
            hit == {k \in DOMAIN viol : viol[k]}
        IN  IF hit = {} THEN pc = "wrap"
            ELSE /\ pc = "rejected"
                 /\ status_code = BadRequest
                 /\ \E k \in hit : /\ \A j \in hit : k <= j
                                   /\ detail = RuleDetail[k]

\* A body that holds a ';', starts with no allowed verb and uses a forbidden
\* construct has been rejected for the ';'.
C10_Witness ==
    /\ pc = "rejected"
    /\ detail = MultiDetail
    /\ LET viol == RuleViolated(body_sql) IN viol[3] /\ viol[5]

=============================================================================
